---------------------------- MODULE Spec2Model ----------------------------
(***************************************************************************)
(* Model of deepseek_tool.py: the multi-account exporter.  main() submits  *)
(* one AccountWorker.run per account to a ThreadPoolExecutor, collects the *)
(* futures and prints a summary.  run() logs in, lists the chat sessions,  *)
(* fetches every chat, writes the per-account files and, with live search, *)
(* appends match records to <output>/matches.jsonl.                        *)
(*                                                                         *)
(* Text is modelled as a sequence of one-character strings, so that        *)
(* slicing, sanitising and the bytes of the match log are computed.        *)
(***************************************************************************)
EXTENDS Integers, Sequences, FiniteSets, TLC

\* ---------------------------------------------------------------- bounds
MaxAccounts == 2
MaxThreads == 2
MaxRetries == 1
MaxSessions == 2
MaxMessages == 2
MaxTime == 1

\* ------------------------------------------------------ program constants
SafeFilenameMax == 120
ExcerptMax == 200
HttpOk == 200
OfflineWindow == 80

\* ------------------------------------------------------------- text helpers
None == <<"None">>

Min(a, b) == IF a < b THEN a ELSE b

Take(s, n) == SubSeq(s, 1, Min(n, Len(s)))

\* the concatenation of the sequences of ss, by halves
RECURSIVE Flatten(_)
Flatten(ss) ==
    IF ss = <<>> THEN <<>>
    ELSE IF Len(ss) = 1 THEN ss[1]
    ELSE Flatten(SubSeq(ss, 1, Len(ss) \div 2)) \o Flatten(SubSeq(ss, Len(ss) \div 2 + 1, Len(ss)))

BadFilenameChars == {"\\", "/", "*", "?", ":", "\"", "<", ">", "|"}

\* re.sub(r'[\\/*?:"<>|]', "_", text)[:120]
safe_filename(text) ==
    Take([i \in 1..Len(text) |-> IF text[i] \in BadFilenameChars THEN "_" ELSE text[i]],
         SafeFilenameMax)

Lower(c) == IF c = "K" THEN "k" ELSE IF c = "X" THEN "x" ELSE c

SearchCaseSensitive(pat, content) ==
    \E i \in 1..(Len(content) - Len(pat) + 1) :
        \A j \in 1..Len(pat) : content[i + j - 1] = pat[j]

\* re.compile(p, re.IGNORECASE).search(content) for a literal pattern p
Search(pat, content) ==
    \E i \in 1..(Len(content) - Len(pat) + 1) :
        \A j \in 1..Len(pat) : Lower(content[i + j - 1]) = Lower(pat[j])

Digit(d) == CASE d = 0 -> "0" [] d = 1 -> "1" [] d = 2 -> "2" [] d = 3 -> "3"
              [] d = 4 -> "4" [] d = 5 -> "5" [] d = 6 -> "6" [] d = 7 -> "7"
              [] d = 8 -> "8" [] d = 9 -> "9"

RECURSIVE Str(_)
Str(n) == IF n < 10 THEN <<Digit(n)>> ELSE Str(n \div 10) \o <<Digit(n % 10)>>

\* json.dumps of a string: the quotes and the escapes of a line feed, a quote
\* and a backslash
JsonStr(s) ==
    <<"\"">> \o Flatten([i \in 1..Len(s) |->
                          IF s[i] = "\n" THEN <<"\\", "n">>
                          ELSE IF s[i] \in {"\"", "\\"} THEN <<"\\", s[i]>>
                          ELSE <<s[i]>>])
             \o <<"\"">>

\* content[:200] + ("..." if len(content) > 200 else "")
Excerpt(content) ==
    Take(content, ExcerptMax) \o (IF Len(content) > ExcerptMax THEN <<".", ".", ".">> ELSE <<>>)

\* the dict of line 203
MatchOut(username, cid, pat, m, content) ==
    [username |-> username, chat_id |-> cid, pattern |-> pat,
     message_id |-> m.message_id, match_excerpt |-> Excerpt(content)]

\* json.dumps(out, ensure_ascii=False) + "\n"
MatchLine(out) ==
    <<"{">> \o JsonStr(out.username) \o <<",">> \o JsonStr(out.chat_id) \o <<",">>
            \o JsonStr(out.pattern) \o <<",">> \o Str(out.message_id) \o <<",">>
            \o JsonStr(out.match_excerpt) \o <<"}", "\n">>

\* a write of `data` at byte offset `pos` of a file holding `bytes`
WriteAt(bytes, pos, data) ==
    LET end == pos + Len(data)
    IN  SubSeq(bytes, 1, pos) \o data
        \o (IF Len(bytes) > end THEN SubSeq(bytes, end + 1, Len(bytes)) ELSE <<>>)

\* -------------------------------------------------------------- the inputs
\* os.path.join
PathJoin(dir, name) == Append(dir, name)

NoPath == <<>>
OutputDir == <<"exports">>
CustomMatchesOut == PathJoin(<<"elsewhere">>, "found.jsonl")

\* account i of accounts.txt; the identifiers differ in length
Username(i) == [j \in 1..i |-> "u"]
Password == <<"p", "w">>
AccountList(n) == [i \in 1..n |-> <<Username(i), Password>>]

Patterns == << <<"k">> >>
TwoPatterns == << <<"k">>, <<"x">> >>

\* the token the remote service issues to an identifier
TokenOf(username) == <<"t">> \o username

\* conversation objects of the session list (JSON values)
Conv(i, title) == [type |-> "dict", id |-> <<"c">> \o Str(i), title |-> title]
NotADict == [type |-> "str", id |-> None, title |-> None]
Titles == {None, <<"a", "/", "b">>}

\* message objects of a history (JSON values)
Msg(i, content) ==
    [type |-> "dict", message_id |-> i, role |-> <<"U">>, content |-> content,
     inserted_at |-> <<"0">>]
Contents == {None, <<"x">>, <<"K", "\n">>, <<"x", "K">>}

SeqsUpTo(S, n) == UNION {[1..k -> S] : k \in 0..n}

\* the data the remote service holds: session lists and, per session, messages
SessionLists ==
    {ss \in SeqsUpTo({Conv(i, t) : i \in 1..MaxSessions, t \in Titles}, MaxSessions) :
        \A i \in 1..Len(ss) : ss[i].id = <<"c">> \o Str(i)}
MessageLists ==
    {ms \in SeqsUpTo({Msg(i, c) : i \in 1..MaxMessages, c \in Contents}, MaxMessages) :
        \A i \in 1..Len(ms) : ms[i].message_id = i}

\* ------------------------------------------------------------------ state
VARIABLES
    args,        \* the parsed command line: threads, max_retries, matches_out, ...
    accounts,    \* parse_accounts(args.accounts)
    srv,         \* the data the remote service holds
    now,         \* the wall clock, in seconds, when timestamp() last read it
    horizon,     \* the second in which the last task starts
    mainpc,      \* main(): "start", "collect", "done"
    worker,      \* per submitted account: the locals of AccountWorker.run
    future,      \* per submitted account: its Future
    results,     \* main's results list
    summary,     \* the final print of main
    dirs,        \* directories on disk
    files,       \* per-account files on disk: path -> content
    logs,        \* match logs on disk: path -> bytes
    db,          \* rows of the messages table
    requests,    \* per account: the HTTP requests its session has sent
    responses,   \* per account: the kinds of the responses it has received
    appended     \* the dicts `out` whose append has been issued, in order

vars == <<args, accounts, srv, now, horizon, mainpc, worker, future, results, summary,
          dirs, files, logs, db, requests, responses, appended>>

Workers == 1..Len(accounts)
username(w) == accounts[w][1]
password(w) == accounts[w][2]

NoErr == [kind |-> "None", status |-> 0, text |-> "None"]
NoBody == [decodable |-> FALSE, token |-> None, text |-> "None"]
NoList == [null |-> FALSE, items |-> <<>>]
NoOut == [username |-> None, chat_id |-> None, pattern |-> None, message_id |-> 0,
          match_excerpt |-> <<>>]
NoOutcome == [username |-> None, ok |-> FALSE, error |-> "None", last_err |-> NoErr,
              folder |-> NoPath]

\* the locals of run() before it starts and after it has ended
Locals(pc) ==
    [pc |-> pc, ts |-> 0, folder |-> NoPath, pidx |-> 1, attempt |-> 0,
     last_err |-> NoErr, token |-> None, login_response |-> NoBody,
     sessions |-> NoList, ci |-> 1, cid |-> None, chat_file |-> NoPath,
     messages |-> <<>>, mi |-> 1, pi |-> 1, out |-> NoOut, buf |-> <<>>, pos |-> 0]

NewFuture == [state |-> "pending", raised |-> FALSE, value |-> NoOutcome]

\* the state when main() has parsed its command line and the accounts file;
\* disk_files and disk_logs are what earlier runs have left under the output
InitOn(accts, patterns, offline_search, disk_files, disk_logs, threads, max_retries, matches_out, live_search, save_db, login_kinds, list_kinds, sessions, history, last) ==
    /\ args = [threads |-> threads, max_retries |-> max_retries,
               matches_out |-> matches_out, live_search |-> live_search,
               save_db |-> save_db, output |-> OutputDir, patterns |-> patterns,
               offline_search |-> offline_search]
    /\ accounts = accts
    /\ srv = [login_kinds |-> login_kinds, list_kinds |-> list_kinds, sessions |-> sessions, history |-> history]
    /\ horizon = last
    /\ now = 0
    /\ mainpc = "start"
    /\ worker = [w \in 1..Len(accts) |-> Locals("queued")]
    /\ future = [w \in 1..Len(accts) |-> NewFuture]
    /\ results = <<>>
    /\ summary = [printed |-> FALSE, succ |-> 0, fail |-> 0, matches |-> NoPath]
    /\ dirs = {}
    /\ files = disk_files
    /\ logs = disk_logs
    /\ db = <<>>
    /\ requests = [w \in 1..Len(accts) |-> <<>>]
    /\ responses = [w \in 1..Len(accts) |-> <<>>]
    /\ appended = <<>>

\* a fetching run of n accounts into an empty output directory
InitWith(n, threads, max_retries, matches_out, live_search, save_db, login_kinds, list_kinds, sessions, history, last) ==
    InitOn(AccountList(n), Patterns, FALSE, <<>>, <<>>, threads, max_retries, matches_out,
           live_search, save_db, login_kinds, list_kinds, sessions, history, last)

\* ------------------------------------------------------------ file system
Exists(fs, path) == path \in DOMAIN fs

\* open(path, "w") ... write(content) ... close
WriteFile(fs, path, content) ==
    [p \in DOMAIN fs \cup {path} |-> IF p = path THEN content ELSE fs[p]]

\* open(path, "a"): the file is created when it is not there
OpenAppend(fs, path) == IF Exists(fs, path) THEN fs ELSE WriteFile(fs, path, <<>>)

LoginFile == <<"login_response.json">>
IndexFile == <<"chats_index.json">>
DefaultLog == PathJoin(OutputDir, "matches.jsonl")

\* ------------------------------------------------------ ends of a task
ReturnWithoutResult(w, outcome) ==
    /\ worker' = [worker EXCEPT ![w] = Locals("returned")]
    /\ UNCHANGED future

\* run() returns `outcome`: the Future holds it
Return(w, outcome) ==
    /\ worker' = [worker EXCEPT ![w] = Locals("returned")]
    /\ future' = [future EXCEPT ![w] = [state |-> "done", raised |-> FALSE, value |-> outcome]]

\* run() raises `exc`: the Future holds the exception
Raise(w, exc) ==
    /\ worker' = [worker EXCEPT ![w] = Locals("raised")]
    /\ future' = [future EXCEPT ![w] =
                     [state |-> "done", raised |-> TRUE,
                      value |-> [NoOutcome EXCEPT !.error = exc]]]

Goto(w, pc) == worker' = [worker EXCEPT ![w].pc = pc]

\* -------------------------------------------------------- remote service
Resp(kind, status, body) == [kind |-> kind, status |-> status, body |-> body]

LoginBody(decodable, token, text) == [decodable |-> decodable, token |-> token, text |-> text]
LoginBodies(w) ==
    {LoginBody(FALSE, None, "<html>"), LoginBody(TRUE, None, "{}"),
     LoginBody(TRUE, <<>>, "{token: ''}"), LoginBody(TRUE, TokenOf(username(w)), "{token: t}")}
LoginResponses(w) ==
    {Resp("exc", 0, NoBody), Resp("http", 500, NoBody)}
        \cup {Resp("http", HttpOk, b) : b \in LoginBodies(w)}

\* bodies of the list and history endpoints: undecodable, a value on the path
\* that is no dict, the field missing, the field null, or the field present
ListBody(shape, items) == [shape |-> shape, items |-> items]
ListBodies(items) ==
    {ListBody("undecodable", <<>>), ListBody("notdict", <<>>), ListBody("missing", <<>>),
     ListBody("null", <<>>), ListBody("garbled", <<NotADict>>), ListBody("ok", items)}
ListResponses(items) ==
    {Resp("exc", 0, ListBody("none", <<>>)), Resp("http", 500, ListBody("none", <<>>))}
        \cup {Resp("http", HttpOk, b) : b \in ListBodies(items)}

\* the sessions the remote service holds for account w, and their messages
SessionsOf(w) == srv.sessions[w]
HistoryOf(w, cid) ==
    IF \E i \in 1..Len(srv.sessions[w]) : srv.sessions[w][i].id = cid
    THEN srv.history[w][CHOOSE i \in 1..Len(srv.sessions[w]) : srv.sessions[w][i].id = cid]
    ELSE <<>>

\* ------------------------------------------------------------ the requests
Req(ep, email, mobile, auth, chat_id) ==
    [ep |-> ep, email |-> email, mobile |-> mobile, auth |-> auth, chat_id |-> chat_id]

try_login_payloads_mobile_first(w) ==
    << [email |-> <<>>, mobile |-> username(w), password |-> password(w)],
       [email |-> username(w), mobile |-> <<>>, password |-> password(w)] >>

\* _try_login_payloads: the identifier as email first, then as mobile
try_login_payloads(w) ==
    << [email |-> username(w), mobile |-> <<>>, password |-> password(w)],
       [email |-> <<>>, mobile |-> username(w), password |-> password(w)] >>

Sent(w, req, kind) ==
    /\ requests' = [requests EXCEPT ![w] = Append(@, req)]
    /\ responses' = [responses EXCEPT ![w] = Append(@, kind)]

LoginOutcomeAnyToken(resp) ==
    IF resp.kind = "exc" THEN [kind |-> "exc", status |-> 0, text |-> "transport"]
    ELSE IF resp.status # HttpOk THEN [kind |-> "http", status |-> resp.status, text |-> "HTTP"]
    ELSE IF ~resp.body.decodable THEN [kind |-> "exc", status |-> 0, text |-> "json"]
    ELSE IF resp.body.token # None
         THEN [kind |-> "token", status |-> HttpOk, text |-> resp.body.text]
    ELSE [kind |-> "notoken", status |-> HttpOk, text |-> resp.body.text]

\* what one login attempt makes of its response: "token" or the new last_err
LoginOutcome(resp) ==
    IF resp.kind = "exc" THEN [kind |-> "exc", status |-> 0, text |-> "transport"]
    ELSE IF resp.status # HttpOk THEN [kind |-> "http", status |-> resp.status, text |-> "HTTP"]
    ELSE IF ~resp.body.decodable THEN [kind |-> "exc", status |-> 0, text |-> "json"]
    ELSE IF resp.body.token # None /\ resp.body.token # <<>>
         THEN [kind |-> "token", status |-> HttpOk, text |-> resp.body.text]
    ELSE [kind |-> "notoken", status |-> HttpOk, text |-> resp.body.text]

\* the kind of a response, as the log of responses keeps it
LoginKind(resp) ==
    IF resp.kind = "exc" THEN "exc"
    ELSE IF resp.status # HttpOk THEN "http"
    ELSE IF ~resp.body.decodable THEN "undecodable"
    ELSE IF resp.body.token = None THEN "absent"
    ELSE IF resp.body.token = <<>> THEN "empty"
    ELSE "token"

\* ------------------------------------------------------------- run(), start
Running == {v \in Workers : future[v].state = "running"}

IdleThreadAlways == TRUE

\* ThreadPoolExecutor(max_workers=args.threads): a thread of the pool is idle
IdleThread == Cardinality(Running) < args.threads

\* a pool thread takes the next queued work item (FIFO) when one is idle
Start(w) ==
    /\ mainpc = "collect"
    /\ worker[w].pc = "queued"
    /\ \A v \in Workers : v < w => worker[v].pc # "queued"
    /\ IdleThread
    /\ worker' = [worker EXCEPT ![w].pc = "mkdir"]
    /\ future' = [future EXCEPT ![w].state = "running"]
    /\ UNCHANGED <<args, accounts, srv, horizon, now, mainpc, results, summary, dirs, files, logs,
                   db, requests, responses, appended>>

\* lines 147-150: ts, folder, os.makedirs; timestamp() reads the wall clock,
\* which has not run backwards since it was last read
MakeFolder(w) ==
    /\ worker[w].pc = "mkdir"
    /\ \E ts \in now..horizon, fault \in BOOLEAN :
         LET folder == PathJoin(args.output, safe_filename(username(w)) \o <<"_">> \o Str(ts))
         IN  /\ now' = ts
             /\ IF fault
                THEN /\ Raise(w, "OSError")
                     /\ UNCHANGED dirs
                ELSE /\ dirs' = dirs \cup {folder}
                     /\ worker' = [worker EXCEPT ![w].pc = "login", ![w].ts = ts,
                                                 ![w].folder = folder]
                     /\ UNCHANGED future
    /\ UNCHANGED <<args, accounts, srv, horizon, mainpc, results, summary, files, logs,
                   db, requests, responses, appended>>

MoreAttemptsShort(w) == worker[w].attempt + 1 < args.max_retries

\* for attempt in range(self.max_retries + 1): another pass follows this one
MoreAttempts(w) == worker[w].attempt < args.max_retries

LoginFailedGoesOn(w, last_err) ==
    /\ worker' = [worker EXCEPT ![w].pc = "store_login", ![w].last_err = last_err]
    /\ UNCHANGED future

\* line 114 raises and run() returns its failed outcome (lines 154-156)
LoginFailed(w, last_err) ==
    Return(w, [username |-> username(w), ok |-> FALSE, error |-> "Login failed for",
               last_err |-> last_err, folder |-> NoPath])

\* one pass of the inner loop of login(); the last failing pass ends the loops
Login(w) ==
    /\ worker[w].pc = "login"
    /\ \E resp \in {r \in LoginResponses(w) : LoginKind(r) \in srv.login_kinds} :
         LET p == try_login_payloads(w)[worker[w].pidx]
             o == LoginOutcome(resp)
         IN  /\ Sent(w, Req("login", p.email, p.mobile, None, None), LoginKind(resp))
             /\ IF o.kind = "token"
                THEN /\ worker' = [worker EXCEPT ![w].pc = "store_login",
                                                 ![w].token = resp.body.token,
                                                 ![w].login_response = resp.body,
                                                 ![w].attempt = 0]
                     /\ UNCHANGED future
                ELSE IF MoreAttempts(w)
                THEN /\ worker' = [worker EXCEPT ![w].last_err = o, ![w].attempt = @ + 1]
                     /\ UNCHANGED future
                ELSE IF worker[w].pidx < Len(try_login_payloads(w))
                THEN /\ worker' = [worker EXCEPT ![w].last_err = o, ![w].attempt = 0,
                                                 ![w].pidx = @ + 1]
                     /\ UNCHANGED future
                ELSE LoginFailed(w, o)
    /\ UNCHANGED <<args, accounts, srv, horizon, now, mainpc, results, summary, dirs, files, logs,
                   db, appended>>

\* lines 159-160
StoreLogin(w) ==
    /\ worker[w].pc = "store_login"
    /\ \E fault \in BOOLEAN :
         IF fault
         THEN /\ Raise(w, "OSError")
              /\ UNCHANGED files
         ELSE /\ files' = WriteFile(files, PathJoin(worker[w].folder, LoginFile),
                                    worker[w].login_response)
              /\ Goto(w, "fetch_sessions")
              /\ UNCHANGED future
    /\ UNCHANGED <<args, accounts, srv, horizon, now, mainpc, results, summary, dirs, logs,
                   db, requests, responses, appended>>

ListOutcomeNoCatch(resp) ==
    IF resp.kind = "exc" \/ resp.status # HttpOk
    THEN [retry |-> TRUE, null |-> FALSE, items |-> <<>>]
    ELSE IF resp.body.shape \in {"undecodable", "notdict", "null"}
    THEN [retry |-> FALSE, null |-> TRUE, items |-> <<>>]
    ELSE IF resp.body.shape = "missing" THEN [retry |-> FALSE, null |-> FALSE, items |-> <<>>]
    ELSE IF resp.body.shape = "garbled" THEN [retry |-> FALSE, null |-> FALSE, items |-> <<NotADict>>]
    ELSE [retry |-> FALSE, null |-> FALSE, items |-> resp.body.items]

\* what one pass of fetch_sessions / fetch_history makes of its response:
\* retry, or the value of data.get("data", {}).get("biz_data", {}).get(field, [])
ListOutcome(resp) ==
    IF resp.kind = "exc" \/ resp.status # HttpOk \/ resp.body.shape \in {"undecodable", "notdict"}
    THEN [retry |-> TRUE, null |-> FALSE, items |-> <<>>]
    ELSE IF resp.body.shape = "missing" THEN [retry |-> FALSE, null |-> FALSE, items |-> <<>>]
    ELSE IF resp.body.shape = "null" THEN [retry |-> FALSE, null |-> TRUE, items |-> <<>>]
    ELSE IF resp.body.shape = "garbled" THEN [retry |-> FALSE, null |-> FALSE, items |-> <<NotADict>>]
    ELSE [retry |-> FALSE, null |-> FALSE, items |-> resp.body.items]

BearerOfFirst(w) == worker[1].token

\* headers = {"Authorization": f"Bearer {token}"}: the token run() got from login
Bearer(w) == worker[w].token

ListKind(resp) ==
    IF resp.kind = "exc" THEN "exc" ELSE IF resp.status # HttpOk THEN "http" ELSE resp.body.shape

\* one pass of the loop of fetch_sessions (lines 116-129); run() line 163-164
FetchSessions(w) ==
    /\ worker[w].pc = "fetch_sessions"
    /\ \E resp \in {r \in ListResponses(SessionsOf(w)) : ListKind(r) \in srv.list_kinds} :
         LET o == ListOutcome(resp)
         IN  /\ Sent(w, Req("sessions", <<>>, <<>>, Bearer(w), None), ListKind(resp))
             /\ IF ~o.retry
                THEN worker' = [worker EXCEPT ![w].pc = "write_index", ![w].attempt = 0,
                                              ![w].sessions = [null |-> o.null, items |-> o.items]]
                ELSE IF MoreAttempts(w)
                THEN worker' = [worker EXCEPT ![w].attempt = @ + 1]
                ELSE worker' = [worker EXCEPT ![w].pc = "write_index", ![w].attempt = 0,
                                              ![w].sessions = NoList]
    /\ UNCHANGED <<args, accounts, srv, horizon, now, mainpc, future, results, summary, dirs, files,
                   logs, db, appended>>

\* lines 165-169
WriteIndex(w) ==
    /\ worker[w].pc = "write_index"
    /\ \E fault \in BOOLEAN :
         IF fault
         THEN /\ Raise(w, "OSError")
              /\ UNCHANGED files
         ELSE /\ files' = WriteFile(files, PathJoin(worker[w].folder, IndexFile),
                                    worker[w].sessions)
              /\ worker' = [worker EXCEPT ![w].pc = "chat_loop", ![w].ci = 1]
              /\ UNCHANGED future
    /\ UNCHANGED <<args, accounts, srv, horizon, now, mainpc, results, summary, dirs, logs,
                   db, requests, responses, appended>>

\* f"{x}" of a string or of None
Fmt(x) == IF x = None THEN <<"N", "o", "n", "e">> ELSE x

\* f"{cid}-{safe_title}.txt"
ChatFileName(cid, safe_title) == Fmt(cid) \o <<"-">> \o safe_title \o <<".", "t", "x", "t">>

ChatAtFromEnd(items, ci) == items[Len(items) + 1 - ci]

\* for chat in sessions: pass number ci takes the item at that place of the list
ChatAt(items, ci) == items[ci]

\* the head of the loop over sessions (lines 172-175) and the return of line 213
NextChat(w) ==
    /\ worker[w].pc = "chat_loop"
    /\ LET ss == worker[w].sessions
           chat == ChatAt(ss.items, worker[w].ci)
           title == IF chat.title = None \/ chat.title = <<>> THEN chat.id ELSE chat.title
       IN  IF ss.null THEN Raise(w, "TypeError")
           ELSE IF worker[w].ci > Len(ss.items)
           THEN Return(w, [username |-> username(w), ok |-> TRUE, error |-> "None",
                           last_err |-> NoErr, folder |-> worker[w].folder])
           ELSE IF chat.type # "dict" THEN Raise(w, "AttributeError")
           ELSE IF title = None THEN Raise(w, "TypeError")
           ELSE /\ worker' = [worker EXCEPT
                                ![w].pc = "fetch_history", ![w].attempt = 0,
                                ![w].cid = chat.id,
                                ![w].chat_file =
                                    PathJoin(worker[w].folder,
                                             ChatFileName(chat.id, safe_filename(title)))]
                /\ UNCHANGED future
    /\ UNCHANGED <<args, accounts, srv, horizon, now, mainpc, results, summary, dirs, files, logs,
                   db, requests, responses, appended>>

\* one pass of the loop of fetch_history (lines 131-143); run() lines 176-177
FetchHistory(w) ==
    /\ worker[w].pc = "fetch_history"
    /\ \E resp \in {r \in ListResponses(HistoryOf(w, worker[w].cid)) : ListKind(r) \in srv.list_kinds} :
         LET o == ListOutcome(resp)
         IN  /\ Sent(w, Req("history", <<>>, <<>>, Bearer(w), worker[w].cid),
                     ListKind(resp))
             /\ IF ~o.retry
                THEN IF o.null
                     THEN Raise(w, "AttributeError")
                     ELSE /\ worker' = [worker EXCEPT ![w].pc = "open_chat", ![w].attempt = 0,
                                                      ![w].messages = o.items]
                          /\ UNCHANGED future
                ELSE IF MoreAttempts(w)
                THEN /\ worker' = [worker EXCEPT ![w].attempt = @ + 1]
                     /\ UNCHANGED future
                ELSE /\ worker' = [worker EXCEPT ![w].pc = "open_chat", ![w].attempt = 0,
                                                 ![w].messages = <<>>]
                     /\ UNCHANGED future
    /\ UNCHANGED <<args, accounts, srv, horizon, now, mainpc, results, summary, dirs, files, logs,
                   db, appended>>

\* lines 179-180: the chat file is created, or truncated when it is there
OpenChat(w) ==
    /\ worker[w].pc = "open_chat"
    /\ \E fault \in BOOLEAN :
         IF fault
         THEN /\ Raise(w, "OSError")
              /\ UNCHANGED files
         ELSE /\ files' = WriteFile(files, worker[w].chat_file, <<>>)
              /\ worker' = [worker EXCEPT ![w].pc = "msg", ![w].mi = 1]
              /\ UNCHANGED future
    /\ UNCHANGED <<args, accounts, srv, horizon, now, mainpc, results, summary, dirs, logs,
                   db, requests, responses, appended>>

\* m.get("content", "") or ""
ContentOf(m) == IF m.content = None THEN <<>> ELSE m.content

\* the text of line 185, kept as its three fields
ChatEntry(m) == <<m.role, m.inserted_at, ContentOf(m)>>

\* the row of lines 191-194
Row(w, cid, m) ==
    [account |-> username(w), chat_id |-> cid, message_id |-> m.message_id,
     role |-> m.role, content |-> ContentOf(m), inserted_at |-> m.inserted_at]

Scanning == args.live_search /\ args.patterns # <<>>

AfterInsertUnlessFailed(failed) == IF Scanning /\ ~failed THEN "scan" ELSE "msg"

\* where run() goes on after the insert of lines 188-197, whose exception is
\* swallowed: the search of line 200, or the next message
AfterInsert(failed) == IF Scanning THEN "scan" ELSE "msg"

\* the head of the loop over messages: lines 181-200, and lines 209-211 at its end
NextMessage(w) ==
    /\ worker[w].pc = "msg"
    /\ LET m == worker[w].messages[worker[w].mi]
       IN  IF worker[w].mi > Len(worker[w].messages)
           THEN /\ worker' = [worker EXCEPT ![w].pc = "chat_loop", ![w].ci = @ + 1,
                                            ![w].mi = 1, ![w].messages = <<>>,
                                            ![w].cid = None, ![w].chat_file = NoPath]
                /\ UNCHANGED <<future, files, db>>
           ELSE IF m.type # "dict"
           THEN /\ Raise(w, "AttributeError")
                /\ UNCHANGED <<files, db>>
           ELSE /\ files' = [files EXCEPT ![worker[w].chat_file] = Append(@, ChatEntry(m))]
                /\ \E stored \in BOOLEAN :
                     /\ db' = IF args.save_db /\ stored
                              THEN Append(db, Row(w, worker[w].cid, m))
                              ELSE db
                     /\ IF AfterInsert(args.save_db /\ ~stored) = "scan"
                        THEN worker' = [worker EXCEPT ![w].pc = "scan", ![w].pi = 1]
                        ELSE worker' = [worker EXCEPT ![w].mi = @ + 1]
                /\ UNCHANGED future
    /\ UNCHANGED <<args, accounts, srv, horizon, now, mainpc, results, summary, dirs, logs,
                   requests, responses, appended>>

\* the match log the tasks write: line 206
WorkerLog == PathJoin(args.output, "matches.jsonl")

\* one pass of the loop over the compiled patterns (lines 201-206): a match
\* builds `out`, opens the log for append and hands the line to the file object
Scan(w) ==
    /\ worker[w].pc = "scan"
    /\ LET m == worker[w].messages[worker[w].mi]
           pat == args.patterns[worker[w].pi]
       IN  IF worker[w].pi > Len(args.patterns)
           THEN /\ worker' = [worker EXCEPT ![w].pc = "msg", ![w].mi = @ + 1, ![w].pi = 1]
                /\ UNCHANGED <<future, logs>>
           ELSE IF ~Search(pat, ContentOf(m))
           THEN /\ worker' = [worker EXCEPT ![w].pi = @ + 1]
                /\ UNCHANGED <<future, logs>>
           ELSE \E fault \in BOOLEAN :
                  IF fault
                  THEN /\ Raise(w, "OSError")
                       /\ UNCHANGED logs
                  ELSE /\ logs' = OpenAppend(logs, WorkerLog)
                       /\ LET out == MatchOut(username(w), worker[w].cid, pat, m, ContentOf(m))
                          IN  worker' = [worker EXCEPT ![w].pc = "append_seek",
                                                       ![w].out = out,
                                                       ![w].buf = MatchLine(out)]
                       /\ UNCHANGED future
    /\ UNCHANGED <<args, accounts, srv, horizon, now, mainpc, results, summary, dirs, files,
                   db, requests, responses, appended>>

\* line 207, the flush at the close of the file object: no lock is held and the
\* file object is the task's own, so the positioning at the end of the file and
\* the write of the buffer are two steps that other tasks' steps may separate
AppendSeek(w) ==
    /\ worker[w].pc = "append_seek"
    /\ worker' = [worker EXCEPT ![w].pc = "append_write", ![w].pos = Len(logs[WorkerLog])]
    /\ UNCHANGED <<args, accounts, srv, horizon, now, mainpc, future, results, summary, dirs, files,
                   logs, db, requests, responses, appended>>

AppendWrite(w) ==
    /\ worker[w].pc = "append_write"
    /\ logs' = [logs EXCEPT ![WorkerLog] = WriteAt(@, worker[w].pos, worker[w].buf)]
    /\ appended' = Append(appended, [w |-> w, out |-> worker[w].out, line |-> worker[w].buf,
                                     log |-> WorkerLog])
    /\ worker' = [worker EXCEPT ![w].pc = "scan", ![w].pi = @ + 1, ![w].out = NoOut,
                                ![w].buf = <<>>, ![w].pos = 0]
    /\ UNCHANGED <<args, accounts, srv, horizon, now, mainpc, future, results, summary, dirs, files,
                   db, requests, responses>>

\* ------------------------------------------------------------------ main()
\* args.matches_out or os.path.join(args.output, "matches.jsonl")
matches_root == IF args.matches_out # NoPath THEN args.matches_out ELSE DefaultLog

\* lines 328-360: the output directory, the truncated match log, the submits
Startup ==
    /\ mainpc = "start"
    /\ ~args.offline_search
    /\ dirs' = dirs \cup {args.output}
    /\ logs' = WriteFile(logs, matches_root, <<>>)
    /\ mainpc' = "collect"
    /\ UNCHANGED <<args, accounts, srv, horizon, now, worker, future, results, summary, files,
                   db, requests, responses, appended>>

OutcomeRaisedOk(w) ==
    [ok |-> IF future[w].raised THEN TRUE ELSE future[w].value.ok,
     error |-> future[w].value.error, of |-> w]

\* fut.result(), or the dict of line 367 when it raises; `of` is no key of the
\* dict: it names the future the entry came from
Outcome(w) ==
    IF future[w].raised
    THEN [ok |-> FALSE, error |-> future[w].value.error, of |-> w]
    ELSE [ok |-> future[w].value.ok, error |-> future[w].value.error, of |-> w]

CollectedUnlessRaised(rs, w) == IF future[w].raised THEN rs ELSE Append(rs, Outcome(w))

\* lines 363-367: results.append in both branches
Collected(rs, w) == Append(rs, Outcome(w))

\* one pass of the loop over as_completed (lines 362-367)
Collect(w) ==
    /\ mainpc = "collect"
    /\ future[w].state = "done"
    /\ results' = Collected(results, w)
    /\ future' = [future EXCEPT ![w].state = "collected"]
    /\ UNCHANGED <<args, accounts, srv, horizon, now, mainpc, worker, summary, dirs, files, logs,
                   db, requests, responses, appended>>

RECURSIVE CountOk(_)
CountOk(rs) == IF rs = <<>> THEN 0 ELSE (IF Head(rs).ok THEN 1 ELSE 0) + CountOk(Tail(rs))

\* lines 369-372
Summarise ==
    /\ mainpc = "collect"
    /\ \A w \in Workers : future[w].state = "collected"
    /\ summary' = [printed |-> TRUE, succ |-> CountOk(results),
                   fail |-> Len(results) - CountOk(results), matches |-> matches_root]
    /\ mainpc' = "done"
    /\ UNCHANGED <<args, accounts, srv, horizon, now, worker, future, results, dirs, files, logs,
                   db, requests, responses, appended>>

\* ---------------------------------------------------------- offline search
\* the text of the files of an export, as the offline search reads them
\* f"[{role}] inserted_at={inserted_at}\n{content}\n\n"
EntryText(e) ==
    <<"[">> \o e[1] \o <<"]", " ">> \o <<"i", "n", "s", "e", "r", "t", "e", "d", "_", "a", "t", "=">> \o e[2]
            \o <<"\n">> \o e[3] \o <<"\n", "\n">>

ChatText(entries) == Flatten([i \in 1..Len(entries) |-> EntryText(entries[i])])

\* json.dump(login_response, f, indent=2) of a body that holds the token
LoginText(body) ==
    <<"{", "\n", " ", " ", "\"", "d", "a", "t", "a", "\"", ":", " ", "{", "\n", " ", " ",
      " ", " ", "\"", "b", "i", "z", "_", "d", "a", "t", "a", "\"", ":", " ", "{", "\n",
      " ", " ", " ", " ", " ", " ", "\"", "u", "s", "e", "r", "\"", ":", " ", "{", "\n",
      " ", " ", " ", " ", " ", " ", " ", " ", "\"", "t", "o", "k", "e", "n", "\"", ":",
      " ">>
        \o JsonStr(body.token)
        \o <<"\n", " ", " ", " ", " ", " ", " ", "}", "\n", " ", " ", " ", " ", "}", "\n", " ", " ", "}", "\n", "}">>

JsonOrNull(x) == IF x = None THEN <<"n", "u", "l", "l">> ELSE JsonStr(x)

\* one item of the session list under indent=2; an item that is no dict is
\* taken to be the empty string
ItemText(c) ==
    IF c.type # "dict" THEN JsonStr(<<>>)
    ELSE <<"{", "\n", " ", " ", " ", " ", "\"", "i", "d", "\"", ":", " ">> \o JsonOrNull(c.id)
         \o <<",", "\n", " ", " ", " ", " ", "\"", "t", "i", "t", "l", "e", "\"", ":", " ">> \o JsonOrNull(c.title)
         \o <<"\n", " ", " ", "}">>

RECURSIVE ItemsText(_)
ItemsText(items) ==
    IF Len(items) = 1 THEN <<"\n", " ", " ">> \o ItemText(items[1]) \o <<"\n">>
    ELSE <<"\n", " ", " ">> \o ItemText(Head(items)) \o <<",">> \o ItemsText(Tail(items))

\* json.dump(sessions, f, indent=2)
IndexText(sessions) ==
    IF sessions.null THEN <<"n", "u", "l", "l">>
    ELSE IF sessions.items = <<>> THEN <<"[", "]">>
    ELSE <<"[">> \o ItemsText(sessions.items) \o <<"]">>

FileName(path) == path[Len(path)]

\* f.read() of a file of the export
TextOf(path) ==
    IF FileName(path) = LoginFile THEN LoginText(files[path])
    ELSE IF FileName(path) = IndexFile THEN IndexText(files[path])
    ELSE ChatText(files[path])

EndsWith(s, suffix) ==
    /\ Len(s) >= Len(suffix)
    /\ SubSeq(s, Len(s) - Len(suffix) + 1, Len(s)) = suffix

\* line 256: the files the walk reads are the .txt, .json and .md files; the
\* names of the login and index files end in .json
Walked ==
    {path \in DOMAIN files :
        \/ FileName(path) \in {LoginFile, IndexFile}
        \/ EndsWith(FileName(path), <<".", "t", "x", "t">>)
        \/ EndsWith(FileName(path), <<".", "m", "d">>)}

\* the files read, in the order of the walk: os.walk fixes no order, and a file
\* that cannot be read is skipped (lines 259-263)
Walks ==
    {order \in SeqsUpTo(Walked, Cardinality(Walked)) :
        \A i, j \in 1..Len(order) : i # j => order[i] # order[j]}

MatchAt(pat, text, i) ==
    /\ i + Len(pat) - 1 <= Len(text)
    /\ \A j \in 1..Len(pat) : Lower(text[i + j - 1]) = Lower(pat[j])

\* cre.finditer(text) for a literal pattern: the starts of the matches, which
\* do not overlap, from the left
RECURSIVE finditer(_, _, _)
finditer(pat, text, from) ==
    IF \E i \in from..Len(text) : MatchAt(pat, text, i)
    THEN LET i == CHOOSE k \in from..Len(text) :
                      /\ MatchAt(pat, text, k)
                      /\ \A l \in from..(k - 1) : ~MatchAt(pat, text, l)
         IN  <<i>> \o finditer(pat, text, i + Len(pat))
    ELSE <<>>

Max(a, b) == IF a > b THEN a ELSE b

\* text[max(0, m.start()-80):min(len(text), m.end()+80)].replace("\n", " ")
OfflineExcerpt(pat, text, i) ==
    LET lo == Max(0, (i - 1) - OfflineWindow) + 1
        hi == Min(Len(text), (i - 1) + Len(pat) + OfflineWindow)
    IN  [k \in 1..(hi - lo + 1) |-> IF text[lo + k - 1] = "\n" THEN " " ELSE text[lo + k - 1]]

\* os.path.join(dirpath, fn) as text: the output directory, the account folder
\* and the file
PathText(path) == <<path[1], "/">> \o path[2] \o <<"/">> \o path[3]

\* json.dumps(entry, ensure_ascii=False) + "\n" of the entry of line 267
OfflineLine(path, pat, excerpt) ==
    <<"{">> \o JsonStr(PathText(path)) \o <<",">> \o JsonStr(pat) \o <<",">>
            \o JsonStr(excerpt) \o <<"}", "\n">>

\* the lines of the entries one file adds to results (lines 264-268)
FileLines(path) ==
    Flatten([p \in 1..Len(args.patterns) |->
        LET pat == args.patterns[p]
            starts == finditer(pat, TextOf(path), 1)
        IN  Flatten([k \in 1..Len(starts) |->
                OfflineLine(path, pat, OfflineExcerpt(pat, TextOf(path), starts[k]))])])

\* offline_search_files(root_dir, patterns, out_file) for the files read
offline_search_files(order) == Flatten([i \in 1..Len(order) |-> FileLines(order[i])])

\* args.matches_out or os.path.join(args.output, "offline_matches.jsonl")
out_file == IF args.matches_out # NoPath THEN args.matches_out
            ELSE PathJoin(args.output, "offline_matches.jsonl")

\* lines 308-316: main() with --offline-search; out_file is opened with "w"
OfflineSearch ==
    /\ mainpc = "start"
    /\ args.offline_search
    /\ IF args.patterns = <<>>
       THEN UNCHANGED logs
       ELSE \E order \in Walks : logs' = WriteFile(logs, out_file, offline_search_files(order))
    /\ mainpc' = "done"
    /\ UNCHANGED <<args, accounts, srv, horizon, now, worker, future, results, summary, dirs,
                   files, db, requests, responses, appended>>

Next ==
    \/ Startup
    \/ \E w \in Workers : Start(w)
    \/ \E w \in Workers : MakeFolder(w)
    \/ \E w \in Workers : Login(w)
    \/ \E w \in Workers : StoreLogin(w)
    \/ \E w \in Workers : FetchSessions(w)
    \/ \E w \in Workers : WriteIndex(w)
    \/ \E w \in Workers : NextChat(w)
    \/ \E w \in Workers : FetchHistory(w)
    \/ \E w \in Workers : OpenChat(w)
    \/ \E w \in Workers : NextMessage(w)
    \/ \E w \in Workers : Scan(w)
    \/ \E w \in Workers : AppendSeek(w)
    \/ \E w \in Workers : AppendWrite(w)
    \/ \E w \in Workers : Collect(w)
    \/ Summarise

\* the kinds of response of the remote service
LoginKinds == {"exc", "http", "undecodable", "absent", "empty", "token"}
ListKinds == {"exc", "http", "undecodable", "notdict", "missing", "null", "garbled", "ok"}

\* one session holding one message
OneSession == <<Conv(1, None)>>
OneMessage(content) == << <<Msg(1, content)>> >>
Hit == <<"K", "\n">>
Miss == <<"x">>

\* the pool: several accounts with one session of one message each, a match in
\* the first account's alone; the remote service refuses logins and sends null
\* for a list
Init ==
    \E n \in 1..MaxAccounts, threads \in 1..MaxThreads :
        InitWith(n, threads, 0, NoPath, TRUE, FALSE, {"http", "token"}, {"null", "ok"},
                 [w \in 1..n |-> OneSession],
                 [w \in 1..n |-> OneMessage(IF w = 1 THEN Hit ELSE Miss)], 0)

Spec == Init /\ [][Next]_vars

\* the match log: a match in every account, with and without --matches-out
InitLog ==
    \E n \in 1..MaxAccounts, threads \in 1..MaxThreads,
       matches_out \in {NoPath, CustomMatchesOut} :
        InitWith(n, threads, 0, matches_out, TRUE, FALSE, {"token"}, {"ok"},
                 [w \in 1..n |-> OneSession], [w \in 1..n |-> OneMessage(Hit)], 0)

SpecLog == InitLog /\ [][Next]_vars

\* login: one account, every kind of login response
InitLogin ==
    \E max_retries \in 0..MaxRetries :
        InitWith(1, 1, max_retries, NoPath, TRUE, TRUE, LoginKinds, {"ok"},
                 <<OneSession>>, <<OneMessage(Hit)>>, 0)

SpecLogin == InitLogin /\ [][Next]_vars

\* list and fetch: one account, the failures of the list and history calls
InitFetch ==
    \E max_retries \in 0..MaxRetries :
        InitWith(1, 1, max_retries, NoPath, TRUE, TRUE, {"token"},
                 {"exc", "http", "undecodable", "ok"},
                 <<OneSession>>, <<OneMessage(Hit)>>, 0)

SpecFetch == InitFetch /\ [][Next]_vars

\* the export of one account: every session list within the bounds, every
\* session holding the same messages, two patterns
InitData ==
    \E live_search \in BOOLEAN, ss \in SessionLists, ms \in MessageLists :
        InitOn(AccountList(1), TwoPatterns, FALSE, <<>>, <<>>, 1, 0, NoPath, live_search, FALSE,
               {"token"}, {"missing", "ok"}, <<ss>>, <<[i \in 1..Len(ss) |-> ms]>>, 0)

SpecData == InitData /\ [][Next]_vars

\* the structured store: one account with one session, --save-db
InitStore ==
    \E live_search \in BOOLEAN, ms \in MessageLists :
        InitOn(AccountList(1), TwoPatterns, FALSE, <<>>, <<>>, 1, 0, NoPath, live_search, TRUE,
               {"token"}, {"ok"}, <<OneSession>>, << <<ms>> >>, 0)

SpecStore == InitStore /\ [][Next]_vars

\* a content of n characters with the letter K at one place
LongContent(n, at) == [i \in 1..n |-> IF i = at THEN "K" ELSE "y"]

\* the excerpt: one account, one message whose content is short, is as long as
\* the excerpt may be, or is longer with the match at its start or at its end
InitExcerpt ==
    \E max_retries \in 0..MaxRetries,
       content \in {Hit, LongContent(ExcerptMax, ExcerptMax), LongContent(ExcerptMax + 1, 1),
                    LongContent(ExcerptMax + 1, ExcerptMax + 1)} :
        InitWith(1, 1, max_retries, NoPath, TRUE, FALSE, {"http", "token"}, {"ok"},
                 <<OneSession>>, <<OneMessage(content)>>, 0)

SpecExcerpt == InitExcerpt /\ [][Next]_vars

\* identifiers of accounts.txt: "u/" and "u?" both sanitise to "u_"
ClashNames == {<<"u">>, <<"u", "/">>, <<"u", "?">>}

\* two accounts whose identifiers may be the same or sanitise to the same name,
\* started in the same second or not; the list call may fail, and the one
\* message of the first account matches
InitClash ==
    \E names \in [1..2 -> ClashNames], last \in 0..MaxTime :
        InitOn([i \in 1..2 |-> <<names[i], Password>>], Patterns, FALSE, <<>>, <<>>, MaxThreads, 0,
               NoPath, TRUE, FALSE, {"token"}, {"http", "ok"},
               [w \in 1..2 |-> OneSession],
               [w \in 1..2 |-> OneMessage(IF w = 1 THEN Hit ELSE Miss)], last)

SpecClash == InitClash /\ [][Next]_vars

\* the retry policy: one account, list and history responses that fail, that
\* lack the expected field, or that hold it
InitRetry ==
    \E max_retries \in 0..MaxRetries :
        InitWith(1, 1, max_retries, NoPath, TRUE, FALSE, {"token"}, {"http", "missing", "ok"},
                 <<OneSession>>, <<OneMessage(Hit)>>, 0)

SpecRetry == InitRetry /\ [][Next]_vars

\* one step of the thread that runs task w
TaskStep(w) ==
    \/ MakeFolder(w) \/ Login(w) \/ StoreLogin(w) \/ FetchSessions(w) \/ WriteIndex(w)
    \/ NextChat(w) \/ FetchHistory(w) \/ OpenChat(w) \/ NextMessage(w) \/ Scan(w)
    \/ AppendSeek(w) \/ AppendWrite(w)

\* the threads are scheduled: a pool thread that can take or continue a task
\* does so in the end, and so does the main thread; every remote call returns
\* (each request is one step that has a response)
Fairness ==
    /\ \A w \in 1..MaxAccounts : WF_vars(w \in Workers /\ (Start(w) \/ TaskStep(w)))
    /\ WF_vars(Startup \/ (\E w \in Workers : Collect(w)) \/ Summarise)

\* the pool with scheduled threads: two accounts, one thread or several, logins
\* that are refused, retries
InitFair ==
    \E threads \in {1, MaxThreads}, max_retries \in 0..MaxRetries :
        InitWith(2, threads, max_retries, NoPath, TRUE, FALSE, {"http", "token"}, {"ok"},
                 [w \in 1..2 |-> OneSession],
                 [w \in 1..2 |-> OneMessage(IF w = 1 THEN Hit ELSE Miss)], 0)

SpecFair == InitFair /\ [][Next]_vars /\ Fairness

\* main(): the fetching pipeline or, with --offline-search, the offline search
Main == Next \/ OfflineSearch

\* what an earlier run has left: the export of an account v with one session
\* holding one matching message, its record in the match log, and the records
\* of an earlier offline search
EarlierFolder == PathJoin(OutputDir, <<"v", "_", "0">>)
EarlierChat == PathJoin(EarlierFolder, ChatFileName(<<"c", "1">>, safe_filename(<<"c", "1">>)))
EarlierFiles ==
    WriteFile(WriteFile(WriteFile(<<>>,
        PathJoin(EarlierFolder, LoginFile), LoginBody(TRUE, TokenOf(<<"v">>), "{token: t}")),
        PathJoin(EarlierFolder, IndexFile), [null |-> FALSE, items |-> OneSession]),
        EarlierChat, <<ChatEntry(Msg(1, Hit))>>)
EarlierLine == MatchLine(MatchOut(<<"v">>, <<"c", "1">>, <<"k">>, Msg(1, Hit), Hit))
EarlierLogs ==
    WriteFile(WriteFile(WriteFile(<<>>,
        DefaultLog, EarlierLine),
        CustomMatchesOut, EarlierLine),
        PathJoin(OutputDir, "offline_matches.jsonl"),
        LET text == ChatText(<<ChatEntry(Msg(1, Hit))>>)
        IN  OfflineLine(EarlierChat, <<"k">>,
                        OfflineExcerpt(<<"k">>, text, finditer(<<"k">>, text, 1)[1])))

\* a run into an output directory that holds an earlier export and its logs
InitRerun ==
    \E n \in 1..MaxAccounts, offline_search \in BOOLEAN, matches_out \in {NoPath, CustomMatchesOut} :
        InitOn(AccountList(n), Patterns, offline_search, EarlierFiles, EarlierLogs, MaxThreads, 0,
               matches_out, TRUE, FALSE, {"token"}, {"ok"},
               [w \in 1..n |-> OneSession], [w \in 1..n |-> OneMessage(Hit)], 0)

SpecRerun == InitRerun /\ [][Main]_vars

\* ================================================================ properties
Terminal(w) == worker[w].pc \in {"returned", "raised"}
Active(w) == worker[w].pc \notin {"queued", "returned", "raised"}
ActiveTasks == {w \in Workers : Active(w)}

EntriesOf(w) == {i \in 1..Len(results) : results[i].of = w}

\* C1: in every reachable state the number of account tasks that have started
\* run() and have neither returned nor raised is at most the concurrency limit
\* args.threads, and a task starts only from a state in which fewer than
\* args.threads tasks are active (the accounts beyond the limit wait).
C1_BoundedConcurrency ==
    /\ [](Cardinality(ActiveTasks) <= args.threads)
    /\ [][\A w \in Workers :
            (~Active(w) /\ Active(w)') => Cardinality(ActiveTasks) < args.threads]_vars

\* C1 witness: as many tasks are active as the limit allows while an account waits
C1_Witness ==
    /\ Cardinality(ActiveTasks) = args.threads
    /\ \E w \in Workers : worker[w].pc = "queued"
    /\ \E w \in Workers : Terminal(w) \/ worker[w].pc \notin {"queued", "mkdir"}

\* C2: when main prints its summary, results holds exactly one entry for each
\* submitted account, so that its length and success + failed both equal the
\* number of accounts, and success counts exactly the tasks that returned ok.
C2_OneOutcomePerAccount ==
    summary.printed =>
        /\ \A w \in Workers : Cardinality(EntriesOf(w)) = 1
        /\ Len(results) = Len(accounts)
        /\ summary.succ + summary.fail = Len(accounts)
        /\ summary.succ =
              Cardinality({w \in Workers : ~future[w].raised /\ future[w].value.ok})

\* C2 witness: a summary over one account that succeeded and one whose login failed
C2_Witness ==
    /\ summary.printed
    /\ summary.succ = 1
    /\ summary.fail = 1
    /\ \E w \in Workers : ~future[w].raised /\ ~future[w].value.ok

\* C3: a task that raises gets one entry with ok = false once main has collected
\* it, the pool is never stuck before the summary while a task has raised, and
\* at the summary every other task has ended and has the one entry that carries
\* its own outcome.
C3_FaultIsolated ==
    (\E w \in Workers : future[w].raised) =>
        /\ \A w \in Workers :
              (future[w].raised /\ future[w].state = "collected") =>
                  /\ Cardinality(EntriesOf(w)) = 1
                  /\ \A i \in EntriesOf(w) : ~results[i].ok
        /\ ~summary.printed => ENABLED Next
        /\ summary.printed =>
              \A w \in Workers :
                  /\ Terminal(w)
                  /\ future[w].state = "collected"
                  /\ ~future[w].raised =>
                        /\ Cardinality(EntriesOf(w)) = 1
                        /\ \A i \in EntriesOf(w) : results[i].ok = future[w].value.ok

\* C3 witness: the summary of a run in which the first task raised in its message
\* loop and a later task still returned ok
C3_Witness ==
    /\ summary.printed
    /\ Len(accounts) >= 2
    /\ future[1].raised /\ future[1].value.error = "AttributeError"
    /\ \E w \in Workers : ~future[w].raised /\ future[w].value.ok

LinesWritten == {appended[i].line : i \in 1..Len(appended)}

\* the bytes are whole lines, each one a line some task has written
RECURSIVE WholeRecords(_)
WholeRecords(bytes) ==
    \/ bytes = <<>>
    \/ \E l \in LinesWritten :
          /\ Len(l) <= Len(bytes)
          /\ SubSeq(bytes, 1, Len(l)) = l
          /\ WholeRecords(SubSeq(bytes, Len(l) + 1, Len(bytes)))

\* C4: under every interleaving of the appends of different tasks, the match
\* log is a sequence of whole records, one per line: it never holds a record
\* mixed with a part of another.
C4_AtomicAppend == \A path \in DOMAIN logs : WholeRecords(logs[path])

\* C10: when the summary is printed, every record a task has appended is a line
\* of the match log at the location the summary reports.
RECURSIVE HasLine(_, _)
HasLine(bytes, l) ==
    /\ Len(l) <= Len(bytes)
    /\ \/ SubSeq(bytes, 1, Len(l)) = l
       \/ \E i \in 1..Len(bytes) :
             /\ bytes[i] = "\n"
             /\ \A j \in 1..(i - 1) : bytes[j] # "\n"
             /\ HasLine(SubSeq(bytes, i + 1, Len(bytes)), l)

C10_MatchesAtReportedLocation ==
    summary.printed =>
        \A i \in 1..Len(appended) :
            /\ summary.matches \in DOMAIN logs
            /\ HasLine(logs[summary.matches], appended[i].line)

\* ------------------------------------------------------- login, list, fetch
\* requests[w][i] was answered by a response of kind responses[w][i]
IsLogin(r) == r.ep = "login"
LoginReqs(w) == SelectSeq(requests[w], IsLogin)
NLogin(w) == Len(LoginReqs(w))
MaxLogin == 2 * (args.max_retries + 1)

EmailShape(w, r) == r.email = username(w) /\ r.mobile = <<>>
MobileShape(w, r) == r.email = <<>> /\ r.mobile = username(w)

LoginFailKinds == {"exc", "http", "undecodable", "absent", "empty"}
ListFailKinds == {"exc", "http", "undecodable"}

AllLoginsFailed(w) ==
    /\ NLogin(w) = MaxLogin
    /\ \A i \in 1..MaxLogin : responses[w][i] \in LoginFailKinds

ReturnedFailed(w) ==
    /\ worker[w].pc = "returned"
    /\ future[w].state \in {"done", "collected"}
    /\ ~future[w].raised
    /\ ~future[w].value.ok

GoodBody(w) == LoginBody(TRUE, TokenOf(username(w)), "{token: t}")

\* C5: for every k <= max_retries, once the first k login responses are
\* failures and the next one is a 200 with a token, login has returned that
\* token and the body of that response, after exactly k + 1 requests, all of
\* them of the email shape.
C5_LoginAfterKFailures ==
    \A w \in Workers : \A k \in 0..args.max_retries :
        (/\ Len(responses[w]) >= k + 1
         /\ \A i \in 1..k : responses[w][i] \in LoginFailKinds
         /\ responses[w][k + 1] = "token")
        => /\ NLogin(w) = k + 1
           /\ \A i \in 1..(k + 1) : EmailShape(w, LoginReqs(w)[i])
           /\ worker[w].pc # "login"
           /\ Active(w) => /\ worker[w].token = TokenOf(username(w))
                           /\ worker[w].login_response = GoodBody(w)

\* C5 witness: max_retries >= 1 failures, then the token, and login has returned
C5_Witness ==
    \E w \in Workers :
        /\ args.max_retries >= 1
        /\ Len(responses[w]) = args.max_retries + 1
        /\ \A i \in 1..args.max_retries : responses[w][i] \in LoginFailKinds
        /\ responses[w][args.max_retries + 1] = "token"
        /\ worker[w].pc = "store_login"

\* the last_err an attempt leaves for a response of this kind
ErrKind(kind) ==
    CASE kind = "http" -> "http"
      [] kind \in {"exc", "undecodable"} -> "exc"
      [] kind \in {"absent", "empty"} -> "notoken"

\* C6: the login requests are max_retries + 1 of the email shape followed by at
\* most max_retries + 1 of the mobile shape; when all 2 * (max_retries + 1) have
\* failed, login has failed, no further request was sent, and the failed outcome
\* carries the error of the last attempt.
C6_LoginExhaustion ==
    \A w \in Workers :
        /\ NLogin(w) <= MaxLogin
        /\ \A i \in 1..NLogin(w) :
              IF i <= args.max_retries + 1
              THEN EmailShape(w, LoginReqs(w)[i])
              ELSE MobileShape(w, LoginReqs(w)[i])
        /\ AllLoginsFailed(w)
              => /\ ReturnedFailed(w)
                 /\ Len(requests[w]) = MaxLogin
                 /\ future[w].value.error = "Login failed for"
                 /\ future[w].value.username = username(w)
                 /\ future[w].value.last_err.kind = ErrKind(responses[w][MaxLogin])
                 /\ responses[w][MaxLogin] = "absent"
                       => future[w].value.last_err.text = "{}"
                 /\ responses[w][MaxLogin] = "empty"
                       => future[w].value.last_err.text = "{token: ''}"
        /\ ReturnedFailed(w) => AllLoginsFailed(w)

\* C6 witness: a failed login with max_retries >= 1 whose last response had no token
C6_Witness ==
    \E w \in Workers :
        /\ args.max_retries >= 1
        /\ AllLoginsFailed(w)
        /\ responses[w][MaxLogin] = "empty"
        /\ responses[w][1] = "http"
        /\ ReturnedFailed(w)

\* C7: a task is past login only after a login response with status 200 and a
\* non-empty token; a 200 response whose token is absent or empty is followed by
\* a further attempt, is waiting for one, or was the last of all attempts.
C7_TokenRequired ==
    \A w \in Workers :
        /\ (Active(w) /\ worker[w].pc \notin {"mkdir", "login"})
              => /\ NLogin(w) >= 1
                 /\ responses[w][NLogin(w)] = "token"
                 /\ worker[w].token # None
                 /\ worker[w].token # <<>>
        /\ (Terminal(w) /\ ~future[w].raised /\ future[w].value.ok)
              => /\ NLogin(w) >= 1
                 /\ responses[w][NLogin(w)] = "token"
        /\ \A i \in 1..NLogin(w) :
              responses[w][i] \in {"absent", "empty"}
                  => \/ i < NLogin(w)
                     \/ worker[w].pc = "login"
                     \/ i = MaxLogin /\ ReturnedFailed(w)

\* C7 witness: a 200 with an empty token, a further attempt, and then a token
C7_Witness ==
    \E w \in Workers :
        /\ NLogin(w) >= 2
        /\ responses[w][NLogin(w) - 1] = "empty"
        /\ responses[w][NLogin(w)] = "token"
        /\ worker[w].pc = "store_login"

\* the folders run() may have made for account w
FoldersOf(w) ==
    {PathJoin(args.output, safe_filename(username(w)) \o <<"_">> \o Str(t)) : t \in 0..horizon}

\* C8: when every login attempt of an account has failed, its task has returned
\* ok = false, main collects that outcome once, and the task has sent no list or
\* history request, written no file into its folder, stored no row and appended
\* no match record.
C8_NothingAfterFailedLogin ==
    \A w \in Workers :
        AllLoginsFailed(w)
            => /\ ReturnedFailed(w)
               /\ Cardinality(EntriesOf(w)) = (IF future[w].state = "collected" THEN 1 ELSE 0)
               /\ \A i \in EntriesOf(w) : ~results[i].ok
               /\ \A i \in 1..Len(requests[w]) : requests[w][i].ep = "login"
               /\ \A path \in DOMAIN files : SubSeq(path, 1, 2) \notin FoldersOf(w)
               /\ \A i \in 1..Len(db) : db[i].account # username(w)
               /\ \A i \in 1..Len(appended) : appended[i].w # w

\* C8 witness: the summary of a run whose one account failed to log in
C8_Witness ==
    /\ summary.printed
    /\ summary.fail = 1
    /\ \E w \in Workers : AllLoginsFailed(w) /\ future[w].state = "collected"

Last(sq) == sq[Len(sq)]

\* the requests of the call that sent the last request
CallCount(reqs) ==
    Cardinality({i \in 1..Len(reqs) :
                    reqs[i].ep = Last(reqs).ep /\ reqs[i].chat_id = Last(reqs).chat_id})

\* C9: a failing response to a list or history request never makes the task
\* raise: it is followed by another attempt, and the attempt number
\* max_retries + 1 of the call ends it with the empty result; no call sends more
\* than max_retries + 1 requests, and a task that returns returns ok = true.
C9_EmptyOnExhaustion ==
    /\ [](\A w \in Workers :
            /\ requests[w] # <<>> => CallCount(requests[w]) <= args.max_retries + 1
            /\ (Terminal(w) /\ ~future[w].raised) => future[w].value.ok
            /\ future[w].raised => future[w].value.error = "OSError")
    /\ [][\A w \in Workers :
            (/\ Len(responses'[w]) = Len(responses[w]) + 1
             /\ Last(requests'[w]).ep \in {"sessions", "history"}
             /\ Last(responses'[w]) \in ListFailKinds)
            => /\ worker'[w].pc # "raised"
               /\ IF CallCount(requests'[w]) = args.max_retries + 1
                  THEN IF Last(requests'[w]).ep = "sessions"
                       THEN /\ worker'[w].pc = "write_index"
                            /\ worker'[w].sessions = NoList
                       ELSE /\ worker'[w].pc = "open_chat"
                            /\ worker'[w].messages = <<>>
                  ELSE worker'[w].pc = worker[w].pc]_vars

\* C9 witness: a task that returned ok = true after the history call had used
\* all its max_retries + 1 >= 2 attempts without a success
C9_Witness ==
    \E w \in Workers :
        /\ args.max_retries >= 1
        /\ Terminal(w) /\ ~future[w].raised /\ future[w].value.ok
        /\ Last(requests[w]).ep = "history"
        /\ CallCount(requests[w]) = args.max_retries + 1
        /\ \A i \in 1..Len(requests[w]) :
              requests[w][i].ep = "history" => responses[w][i] \in ListFailKinds

\* C11: every step of a fetching run and of an offline search leaves each match
\* log with its earlier content as a prefix of its new content: no record that
\* was in a log is removed or rewritten.
C11_AppendOnly ==
    [][\A path \in DOMAIN logs :
          /\ path \in DOMAIN logs'
          /\ Len(logs'[path]) >= Len(logs[path])
          /\ SubSeq(logs'[path], 1, Len(logs[path])) = logs[path]]_vars


\* ------------------------------------------------------ messages and matches
ReturnedOk(w) == worker[w].pc = "returned" /\ ~future[w].raised /\ future[w].value.ok

\* the messages the history call for conversation cid has returned to task w
Fetched(w, cid) ==
    IF \E i \in 1..Len(requests[w]) :
          /\ requests[w][i].ep = "history"
          /\ requests[w][i].chat_id = cid
          /\ responses[w][i] = "ok"
    THEN HistoryOf(w, cid)
    ELSE <<>>

\* message j of conversation number c of task w is behind the task: written and,
\* if enabled, stored and scanned
Past(w, c, j) ==
    \/ ReturnedOk(w)
    \/ worker[w].pc = "chat_loop" /\ c < worker[w].ci
    \/ /\ worker[w].pc \in {"fetch_history", "open_chat", "msg", "scan", "append_seek", "append_write"}
       /\ \/ c < worker[w].ci
          \/ c = worker[w].ci /\ worker[w].pc \in {"msg", "scan", "append_seek", "append_write"}
                              /\ j < worker[w].mi

\* the dicts task w has appended for message m of conversation cid, in order
RecordsFor(w, cid, m) ==
    LET Mine(a) == a.w = w /\ a.out.chat_id = cid /\ a.out.message_id = m.message_id
        recs == SelectSeq(appended, Mine)
    IN  [i \in 1..Len(recs) |-> recs[i].out]

\* the dicts the search of message m of conversation cid is to append
ExpectedFor(w, cid, m) ==
    IF ~args.live_search THEN <<>>
    ELSE Flatten([p \in 1..Len(args.patterns) |->
            IF Search(args.patterns[p], ContentOf(m))
            THEN <<MatchOut(username(w), cid, args.patterns[p], m, ContentOf(m))>>
            ELSE <<>>])

Stored(w, cid, m) == \E i \in 1..Len(db) : db[i] = Row(w, cid, m)

\* entry j of a conversation file of task w is the text of message m
Written(w, cid, j, m) ==
    \E path \in DOMAIN files :
        /\ SubSeq(path, 1, 2) \in FoldersOf(w)
        /\ Take(FileName(path), Len(cid) + 1) = cid \o <<"-">>
        /\ Len(files[path]) >= j
        /\ files[path][j] = ChatEntry(m)

\* C12: for every message behind a task, the text in the conversation file and
\* the records appended for it are those of the message alone, the same when
\* its insert into the store succeeded (its row is there) and when it raised
\* (no row); a failed insert never ends the task, which goes on to the next
\* message.
C12_StoreFailureHarmless ==
    \A w \in Workers :
        /\ future[w].raised => future[w].value.error = "OSError"
        /\ \A c \in 1..Len(SessionsOf(w)) :
              LET cid == SessionsOf(w)[c].id
              IN  \A j \in 1..Len(Fetched(w, cid)) :
                    LET m == Fetched(w, cid)[j]
                    IN  /\ (Past(w, c, j) /\ Stored(w, cid, m))
                              => /\ Written(w, cid, j, m)
                                 /\ RecordsFor(w, cid, m) = ExpectedFor(w, cid, m)
                        /\ (Past(w, c, j) /\ ~Stored(w, cid, m))
                              => /\ Written(w, cid, j, m)
                                 /\ RecordsFor(w, cid, m) = ExpectedFor(w, cid, m)

\* C12 witness: a task that returned ok after the insert of its first message,
\* which matches, had raised and the insert of its second message had not
C12_Witness ==
    \E w \in Workers :
        LET ms == Fetched(w, <<"c", "1">>)
        IN  /\ ReturnedOk(w)
            /\ args.live_search
            /\ Len(ms) >= 2
            /\ ~Stored(w, <<"c", "1">>, ms[1])
            /\ Stored(w, <<"c", "1">>, ms[2])
            /\ RecordsFor(w, <<"c", "1">>, ms[1]) # <<>>

Upper(c) == IF c = "k" THEN "K" ELSE IF c = "x" THEN "X" ELSE c

\* the literal pattern occurs in the text, letter case aside
Matches(pat, text) ==
    \E i \in 1..Len(text) :
        /\ i + Len(pat) - 1 <= Len(text)
        /\ [k \in 1..Len(pat) |-> Upper(text[i + k - 1])] = [k \in 1..Len(pat) |-> Upper(pat[k])]

\* the appends task w has issued for message m of conversation cid and pattern pat
AppendsFor(w, cid, m, pat) ==
    {i \in 1..Len(appended) :
        /\ appended[i].w = w
        /\ appended[i].out.chat_id = cid
        /\ appended[i].out.message_id = m.message_id
        /\ appended[i].out.pattern = pat}

\* what the message holds: an absent content is the empty string
TextOfMessage(m) == IF m.content = None THEN <<>> ELSE m.content

\* C13: with live search, for every fetched message behind a task and every
\* configured pattern, exactly one record has been appended if the pattern
\* matches the content of the message (the empty string if the content is
\* absent), and none if it does not; at no time are there more, and without
\* live search there are none.
C13_OneRecordPerMatch ==
    \A w \in Workers : \A c \in 1..Len(SessionsOf(w)) :
        LET cid == SessionsOf(w)[c].id
        IN  \A j \in 1..Len(Fetched(w, cid)) : \A p \in 1..Len(args.patterns) :
              LET m == Fetched(w, cid)[j]
                  pat == args.patterns[p]
                  due == IF args.live_search /\ Matches(pat, TextOfMessage(m)) THEN 1 ELSE 0
              IN  /\ Cardinality(AppendsFor(w, cid, m, pat)) <= due
                  /\ Past(w, c, j) => Cardinality(AppendsFor(w, cid, m, pat)) = due

\* C13 witness: a task that returned ok with live search after a message that
\* matches both patterns, with one record for each, and a message without
\* content, with none
C13_Witness ==
    \E w \in Workers :
        LET ms == Fetched(w, <<"c", "1">>)
        IN  /\ ReturnedOk(w)
            /\ args.live_search
            /\ Len(ms) >= 2
            /\ ms[1].content = <<"x", "K">>
            /\ ms[2].content = None
            /\ \A p \in 1..Len(args.patterns) :
                  /\ Cardinality(AppendsFor(w, <<"c", "1">>, ms[1], args.patterns[p])) = 1
                  /\ Cardinality(AppendsFor(w, <<"c", "1">>, ms[2], args.patterns[p])) = 0

\* the message of task w a record was appended for
MessageOf(w, out) ==
    LET ms == HistoryOf(w, out.chat_id)
    IN  ms[CHOOSE j \in 1..Len(ms) : ms[j].message_id = out.message_id]

\* C14: for every record appended, the excerpt starts with the first 200
\* characters of the content (all of it if it is shorter), holds the matched
\* text, and ends with the marker "..." exactly when the content is longer
\* than 200 characters.
C14_ExcerptHoldsMatch ==
    \A i \in 1..Len(appended) :
        LET out == appended[i].out
            content == TextOfMessage(MessageOf(appended[i].w, out))
            kept == Min(Len(content), ExcerptMax)
            marker == <<".", ".", ".">>
        IN  /\ Matches(out.pattern, out.match_excerpt)
            /\ Take(out.match_excerpt, kept) = Take(content, kept)
            /\ Len(content) > ExcerptMax => out.match_excerpt = Take(content, kept) \o marker
            /\ Len(content) <= ExcerptMax => out.match_excerpt = content

\* the conversation list the list call has returned to task w
Listed(w) ==
    IF \E i \in 1..Len(requests[w]) : requests[w][i].ep = "sessions" /\ responses[w][i] = "ok"
    THEN SessionsOf(w)
    ELSE <<>>

IsHistory(r) == r.ep = "history"

\* the conversation ids of the history requests of task w, in the order sent
HistoryIds(w) ==
    LET reqs == SelectSeq(requests[w], IsHistory)
    IN  [i \in 1..Len(reqs) |-> reqs[i].chat_id]

\* the dicts task w has appended, in the order of the appends
OutsOf(w) ==
    LET Mine(a) == a.w = w
        recs == SelectSeq(appended, Mine)
    IN  [i \in 1..Len(recs) |-> recs[i].out]

\* the records due for all that task w has fetched: conversations in the order
\* of the list, messages in the order of the history, patterns as configured
ExpectedInOrder(w) ==
    Flatten([c \in 1..Len(Listed(w)) |->
        LET cid == Listed(w)[c].id
        IN  Flatten([j \in 1..Len(Fetched(w, cid)) |-> ExpectedFor(w, cid, Fetched(w, cid)[j])])])

IsPrefix(a, b) == Len(a) <= Len(b) /\ SubSeq(b, 1, Len(a)) = a

\* C15: a task sends its history requests in the order of the conversation
\* list it was given, one conversation after the other; when the request for a
\* conversation is sent, every message of every earlier conversation has been
\* written to its file and scanned; the records of the task have been appended
\* in the order of the list, of the messages and of the patterns, and in a run
\* of one account the log holds their lines in that order.
C15_ServerOrder ==
    \A w \in Workers :
        /\ IsPrefix(HistoryIds(w), [c \in 1..Len(Listed(w)) |-> Listed(w)[c].id])
        /\ \A c \in 1..Len(HistoryIds(w)) : \A b \in 1..(c - 1) :
              LET cid == Listed(w)[b].id
              IN  \A j \in 1..Len(Fetched(w, cid)) :
                    /\ Written(w, cid, j, Fetched(w, cid)[j])
                    /\ RecordsFor(w, cid, Fetched(w, cid)[j])
                          = ExpectedFor(w, cid, Fetched(w, cid)[j])
        /\ IsPrefix(OutsOf(w), ExpectedInOrder(w))
        /\ (Len(accounts) = 1 /\ WorkerLog \in DOMAIN logs)
              => logs[WorkerLog] = Flatten([i \in 1..Len(appended) |-> appended[i].line])

\* C15 witness: a task that returned ok after two conversations of two
\* messages each, with records for both conversations
C15_Witness ==
    \E w \in Workers :
        /\ ReturnedOk(w)
        /\ Len(HistoryIds(w)) = 2
        /\ \A c \in 1..2 : Len(Fetched(w, Listed(w)[c].id)) = 2
        /\ Len(OutsOf(w)) >= 3
        /\ OutsOf(w)[1].chat_id # OutsOf(w)[Len(OutsOf(w))].chat_id

\* the name run() gives the file of a conversation of the list
FileOfConversation(chat) ==
    ChatFileName(chat.id, safe_filename(IF chat.title \in {None, <<>>} THEN chat.id ELSE chat.title))

\* C16: every conversation file on disk lies in a folder whose index file has
\* been written and lists the conversation the file belongs to.
C16_IndexedConversations ==
    \A path \in DOMAIN files :
        FileName(path) \notin {LoginFile, IndexFile}
            => LET index == PathJoin(SubSeq(path, 1, 2), IndexFile)
               IN  /\ index \in DOMAIN files
                   /\ \E c \in 1..Len(files[index].items) :
                         /\ files[index].items[c].type = "dict"
                         /\ FileOfConversation(files[index].items[c]) = FileName(path)

\* C20: no two tasks of a run have the same per-account folder: the folders,
\* and so the login, index and conversation files in them, are each written by
\* one task only.
C20_OwnFolder ==
    \A w, v \in Workers :
        (w # v /\ worker[w].folder # NoPath /\ worker[v].folder # NoPath)
            => worker[w].folder # worker[v].folder

\* the number of request i of task w among the requests of its call
AttemptOf(w, i) ==
    Cardinality({k \in 1..i : /\ requests[w][k].ep = requests[w][i].ep
                              /\ requests[w][k].chat_id = requests[w][i].chat_id})

\* C17: a status-200 response to a list or history request that lacks the
\* expected field, received while attempts remain, is followed by another
\* attempt of the same call: the task is about to send it or has sent it.
C17_MissingFieldRetried ==
    \A w \in Workers : \A i \in 1..Len(requests[w]) :
        (/\ requests[w][i].ep \in {"sessions", "history"}
         /\ responses[w][i] = "missing"
         /\ AttemptOf(w, i) <= args.max_retries)
        => IF i = Len(requests[w])
           THEN worker[w].pc = (IF requests[w][i].ep = "sessions" THEN "fetch_sessions"
                                ELSE "fetch_history")
           ELSE /\ requests[w][i + 1].ep = requests[w][i].ep
                /\ requests[w][i + 1].chat_id = requests[w][i].chat_id

\* C18 as stated: every account task eventually returns, with failed
\* authentication or done.
C18_AuthFailedOrDone ==
    \A w \in 1..MaxAccounts : <>(w \in Workers => worker[w].pc = "returned")

\* C18: with scheduled threads and remote calls that return, every account
\* task eventually ends (it returns with failed authentication or done, or it
\* raises a fault that main turns into a failed outcome), the pool eventually
\* prints its summary, and a task that has started and not ended can always
\* take its next step: it never waits for another task.
C18_EveryTaskEnds ==
    /\ \A w \in 1..MaxAccounts : <>(w \in Workers => Terminal(w))
    /\ <>summary.printed
    /\ [](\A w \in Workers : Active(w) => ENABLED TaskStep(w))

\* C18 witness: the summary of a run with retries in which one task raised and
\* another returned after all its login attempts had failed
C18_Witness ==
    /\ summary.printed
    /\ args.max_retries >= 1
    /\ \E w, v \in Workers : future[w].raised /\ AllLoginsFailed(v) /\ ReturnedFailed(v)

\* the token the remote service returned to the login of task w
IssuedTo(w) == TokenOf(accounts[w][1])

\* C19: every login request of a task carries the identifier of its own
\* account; every list and history request of a task carries the token the
\* service returned to that task's own login, which is no other task's token;
\* every record a task appends names its own account.
C19_OwnToken ==
    \A w \in Workers :
        /\ \A i \in 1..Len(requests[w]) :
              IF requests[w][i].ep = "login"
              THEN accounts[w][1] \in {requests[w][i].email, requests[w][i].mobile}
              ELSE /\ requests[w][i].auth = IssuedTo(w)
                   /\ \E k \in 1..(i - 1) : requests[w][k].ep = "login" /\ responses[w][k] = "token"
                   /\ \A v \in Workers \ {w} : requests[w][i].auth # IssuedTo(v)
        /\ \A i \in 1..Len(appended) :
              appended[i].w = w => appended[i].out.username = accounts[w][1]

\* C19 witness: two tasks have both sent a history request and a record has
\* been appended
C19_Witness ==
    /\ Len(accounts) >= 2
    /\ \A w \in Workers : \E i \in 1..Len(requests[w]) : requests[w][i].ep = "history"
    /\ appended # <<>>

=============================================================================
